---- MODULE Spec2Model ----
(***************************************************************************)
(* Model of the school-scraper repository.                                 *)
(*                                                                         *)
(* Two pipelines are modelled, each under its own specification:           *)
(*   Spec        the listing crawler  (scrapers/texas.py TexasSchoolScraper,*)
(*               identical in behaviour to school_scraper.py SchoolScraper) *)
(*   SpecEnrich  the enrichment pass  (base/base_scraper.py                 *)
(*               BaseSchoolEnricher with scrapers/texas.py                  *)
(*               TexasSchoolEnricher, identical in behaviour to             *)
(*               enrich_school_dataset.py SchoolEnricher)                   *)
(*   SpecLive    the listing crawler as a running program (weak fairness    *)
(*               of its steps), for termination                             *)
(*   SpecRuns    either run, for what the two runs have in common           *)
(*   SpecAnyFilters  the listing crawler called with any filter sequence   *)
(*   SpecPipeline    main.py: the scrape run followed by the enrich run      *)
(*   SpecResume      enrich runs on the files earlier enrich runs wrote      *)
(*                                                                         *)
(* The browser and the site are the environment: the site is a fixed list  *)
(* of result pages, the pager of the site has a position (site_page), and   *)
(* the table in the DOM shows the rows of one page (dom_page, 0 when the    *)
(* table has no rows). A click moves the pager at once; the table follows   *)
(* when the environment renders.                                            *)
(***************************************************************************)
EXTENDS Integers, Sequences, FiniteSets, TLC

\* ---------------------------------------------------------------- bounds
\* Largest number of result pages of a site.
MaxPages == 2
\* Rows of one result page.
RowsPerPage == 2
\* Nested calls of _process_current_page the interpreter allows on one page
\* before it raises RecursionError (a stand-in for Python's recursion limit):
\* the stale-element conditions one page can raise and still be re-entered.
MaxStale == 2
\* Rows that raise a non-stale error during one crawl.
MaxRowErrors == 2
\* Largest number of records of a dataset given to the enrichment run.
MaxRecords == 101
\* Number of arrangements of records and detail pages the datasets are drawn from.
NumSeeds == 4

\* ----------------------------------------------------- program constants
\* _click_with_retry(self, element, max_retries=3)
MaxRetries == 3
\* run of the enricher: `if (index + 1) % 50 == 0`
CheckpointEvery == 50

\* ------------------------------------------------------------ values
\* A field holds a text (a sequence of characters), None or NaN.
\* Python's None.
None == <<"<None>">>
\* pandas' NaN: what read_csv gives for an empty cell.
NaN == <<"<NaN>">>

VARIABLES
    \* --- environment of the crawl
    site,            \* the result pages: a sequence of pages, each a sequence of rows
    site_page,       \* the page the pager of the site is on
    dom_page,        \* the page whose rows the table shows; 0: the table has no rows
    \* --- TexasSchoolScraper
    driver,          \* self.driver: "None" | "active" | "quit"
    schools_data,    \* self.schools_data
    processed_urls,  \* self.processed_urls
    current_page,    \* self.current_page
    run_pc,          \* position in run()
    pc,              \* position in get_table_data(): the state of collectAll
    rows,            \* _process_current_page: the row elements found
    row_idx,         \* _process_current_page: the row the loop is at
    click_log,       \* _click_with_retry: the outcome of every attempt of this call
    backoffs,        \* _click_with_retry: time.sleep(1) calls of this call
    click_result,    \* _click_with_retry: "none" | "True" | the exception raised
    \* --- observations
    rows_wait,       \* result of the wait for a row at the top of this iteration
    confirm_wait,    \* result of the wait for a row after the last click
    timed_out,       \* a wait for a row has timed out during this crawl
    last_wait,       \* the last call of wait_for_element: what it gave and logged
    reentries,       \* recursive re-entries of _process_current_page on this page
    row_errors,      \* a row was dropped by the generic handler of the row loop
    dropped,         \* urls of the rows dropped in this pass over the rows of the page
    row_error_count, \* rows dropped by the generic handler so far
    advances,        \* how often _click_with_retry returned True
    fail_reason,     \* the exception get_table_data caught, "none" if none
    gtd_exit,        \* how get_table_data ended: "none" | "returned" | "raised"
    run_error,       \* the exception the handler of run caught, "none" if none
    run_exit,        \* how run ended: "none" | "returned" | "raised"
    saved,           \* the file save_data wrote: <<>> if none, else <<dataset>>
    old_output,      \* the file at output_file before the run: <<>> if none, else <<dataset>>
    filters,         \* run: the argument filters
    selected,        \* apply_filters: the filter values typed into the filter control, in order
    first_shown,     \* pairs <<url, page>>: the result page whose rows first showed the url to find_elements
    \* --- environment of the enrichment
    seed,            \* which arrangement of records and detail pages is given
    input_csv,       \* the input file: <<>> if there is none, else <<the records in it>>
    \* --- TexasSchoolEnricher
    e_driver,        \* self.driver: "None" | "active" | "quit"
    driver_url,      \* the url of the last page driver.get loaded, 0 if none
    df,              \* self.df (None before read_csv: no rows)
    updated_df,      \* run: updated_df
    index,           \* run: index of the row the loop is at
    processed_count, \* self.processed_count
    new_data,        \* process_school: <<>>, or <<the dict extract_additional_data returned>>
    e_pc,            \* position in run()
    \* --- observations and files
    navs,            \* driver.get calls
    extracts,        \* extract_additional_data calls
    sleeps,          \* time.sleep(1) calls (rate limiting)
    flushed_at,      \* 1-indexed positions after which intermediate_ was written
    intermediate_csv,\* the file intermediate_<input>: <<>> if not written, else <<dataset>>
    enriched_csv,    \* the file enriched_<input>: <<>> if not written, else <<dataset>>
    e_error,         \* the exception the handler of run caught, "none" if none
    e_exit,          \* how run ended: "none" | "returned" | "raised"
    input_name,      \* which file the enricher is run on: "original" | "intermediate" | "enriched"
    original_size    \* records of the original dataset (of the file the first enrich run was given)

crawl_vars == <<site, site_page, dom_page, driver, schools_data, processed_urls,
                current_page, run_pc, pc, rows, row_idx, click_log, backoffs,
                click_result, rows_wait, confirm_wait, timed_out, last_wait,
                reentries, row_errors, dropped, row_error_count, advances, fail_reason, gtd_exit, run_error,
                run_exit,
                saved, first_shown, selected, filters, old_output>>

enrich_vars == <<seed, input_csv, e_driver, driver_url, df, updated_df, index,
                 processed_count, new_data, e_pc, navs, extracts, sleeps,
                 flushed_at, intermediate_csv, enriched_csv, e_error, e_exit, input_name, original_size>>

vars == <<crawl_vars, enrich_vars>>

\* ------------------------------------------------------------ the site
\* One row of the listing table: the four columns the crawler reads.
Row(u) == [url |-> u, name |-> <<"name", u>>, district |-> <<"district", u % 2>>,
           address |-> <<"address", u>>, grades |-> <<"grades", u % 3>>]

\* The url shown in row r of page p. With overlap, the first row of a page
\* repeats the last row of the page before it.
UrlAt(p, r, overlap) == (p - 1) * RowsPerPage + r - (IF overlap THEN p - 1 ELSE 0)

MakeSite(np, overlap) ==
    [p \in 1..np |-> [r \in 1..RowsPerPage |-> Row(UrlAt(p, r, overlap))]]

NumPages == Len(site)

\* driver.find_elements(By.XPATH, "//table//tbody/tr")
DomRows == IF dom_page \in 1..NumPages THEN site[dom_page] ELSE <<>>

RowsPresent == Len(DomRows) > 0

AllUrls == {site[p][r].url : p \in 1..NumPages, r \in 1..RowsPerPage}

\* ------------------------------------------------- TexasSchoolScraper
\* main.py: the filters of the scrape run.
Filters == <<"Prekindergarten", "Kindergarten", "Early Education">>

\* No call of wait_for_element yet.
NoWait == [condition |-> "none", element |-> "none", errors |-> 0, raised |-> "none"]

\* Faulty variant of WaitForElement: the TimeoutException is not caught.
WaitForElementRaises(condition, satisfied) ==
    [condition |-> condition,
     element   |-> IF satisfied THEN "element" ELSE "None",
     errors    |-> IF satisfied THEN 0 ELSE 1,
     raised    |-> IF satisfied THEN "none" ELSE "TimeoutException"]

\* BaseWebDriver.wait_for_element(by, selector, condition=...): what one call
\* gives, given whether the condition ("presence" or "clickable") comes to
\* hold within the timeout: the element, or None after WebDriverWait.until
\* raised TimeoutException, which is caught and logged as one error line.
WaitForElement(condition, satisfied) ==
    [condition |-> condition,
     element   |-> IF satisfied THEN "element" ELSE "None",
     errors    |-> IF satisfied THEN 0 ELSE 1,
     raised    |-> "none"]

\* BaseSchoolScraper.__init__, the argument run is called with, and the file
\* that is at the output path before the run.
InitCrawlWith(fs, old) ==
    /\ \E np \in 0..MaxPages, overlap \in BOOLEAN : site = MakeSite(np, overlap)
    /\ site_page = 1
    /\ dom_page = 0
    /\ driver = "None"
    /\ schools_data = <<>>
    /\ processed_urls = {}
    /\ current_page = 1
    /\ run_pc = "setup_driver"
    /\ pc = "Idle"
    /\ rows = <<>>
    /\ row_idx = 0
    /\ click_log = <<>>
    /\ backoffs = 0
    /\ click_result = "none"
    /\ rows_wait = "none"
    /\ confirm_wait = "none"
    /\ timed_out = FALSE
    /\ last_wait = NoWait
    /\ reentries = 0
    /\ row_errors = FALSE
    /\ dropped = {}
    /\ row_error_count = 0
    /\ advances = 0
    /\ fail_reason = "none"
    /\ gtd_exit = "none"
    /\ run_error = "none"
    /\ run_exit = "none"
    /\ saved = <<>>
    /\ old_output = old
    /\ filters = fs
    /\ selected = <<>>
    /\ first_shown = {}

\* The scrape run as main.py (and the __main__ blocks) call it, in a
\* directory with no file of an earlier run.
InitCrawl == InitCrawlWith(Filters, <<>>)

\* The filter sequences run may be called with: the filters of main.py, cut
\* after any number of them (the empty sequence included).
FilterSequences == {SubSeq(Filters, 1, n) : n \in 0..Len(Filters)}

\* The scraper before a run called with any of them.
CrawlAnyFilters == \E fs \in FilterSequences : InitCrawlWith(fs, <<>>)

\* The enricher before it is constructed: no part of the crawl touches it.
EnrichIdle ==
    /\ seed = 0
    /\ input_csv = <<>>
    /\ e_driver = "None"
    /\ driver_url = 0
    /\ df = <<>>
    /\ updated_df = <<>>
    /\ index = 0
    /\ processed_count = 0
    /\ new_data = <<>>
    /\ e_pc = "idle"
    /\ navs = 0
    /\ extracts = 0
    /\ sleeps = 0
    /\ flushed_at = {}
    /\ intermediate_csv = <<>>
    /\ enriched_csv = <<>>
    /\ e_error = "none"
    /\ e_exit = "none"
    /\ original_size = 0
    /\ input_name = "none"

\* Faulty variant of GtdCatches: a handler that lets the exceptions of the
\* click protocol through.
GtdCatchesNarrow(e) == e \notin {"ElementClickIntercepted", "StaleElementReference"}

\* `except Exception as e` of get_table_data: the exceptions it catches.
GtdCatches(e) == TRUE

\* `except Exception as e` of run: the exceptions it catches (and does not
\* raise again).
RunCatches(e) == TRUE

\* The exception e leaves the try block of one iteration of get_table_data.
PageFails(e) ==
    /\ pc' = "Failed"
    /\ IF GtdCatches(e)
         THEN /\ fail_reason' = e
              /\ gtd_exit' = "returned"
              /\ run_pc' = "save_data"
              /\ run_error' = run_error
         ELSE /\ fail_reason' = fail_reason
              /\ gtd_exit' = "raised"
              /\ run_pc' = "cleanup"
              /\ run_error' = e

\* run: self.setup_driver()
SetupDriver ==
    /\ run_pc = "setup_driver"
    /\ \E ok \in BOOLEAN :
         IF ok
           THEN /\ driver' = "active"
                /\ run_pc' = "apply_filters"
                /\ run_error' = run_error
           ELSE /\ driver' = driver
                /\ run_pc' = "cleanup"
                /\ run_error' = "SessionStartError"
    /\ UNCHANGED <<old_output, filters, selected, first_shown, row_error_count, dropped, last_wait, timed_out, site, site_page, dom_page, schools_data, processed_urls,
                   current_page, pc, rows, row_idx, click_log, backoffs,
                   click_result, rows_wait, confirm_wait, reentries, row_errors, advances, fail_reason, gtd_exit, run_exit, saved>>
    /\ UNCHANGED enrich_vars

\* run: self.apply_filters(filters). The filter control is found (clickable)
\* or the wait returns None. The loop over filters clicks the control and
\* types each value; None.click() raises in its first iteration, and with no
\* filter the loop body is never run.
ApplyFilters ==
    /\ run_pc = "apply_filters"
    /\ \E found \in BOOLEAN :
         LET w == WaitForElement("clickable", found) IN
         /\ last_wait' = w
         /\ IF w.raised # "none"
              THEN /\ run_pc' = "cleanup"
                   /\ pc' = pc
                   /\ run_error' = w.raised
                   /\ selected' = selected
              ELSE IF w.element # "None" \/ Len(filters) = 0
                THEN /\ run_pc' = "get_table_data"
                     /\ pc' = "AwaitingRows"
                     /\ run_error' = run_error
                     /\ selected' = filters
                ELSE /\ run_pc' = "cleanup"
                     /\ pc' = pc
                     /\ run_error' = "AttributeError"
                     /\ selected' = selected
    /\ UNCHANGED <<old_output, filters, first_shown, row_error_count, dropped, timed_out, site, site_page, dom_page, driver, schools_data, processed_urls,
                   current_page, rows, row_idx, click_log, backoffs,
                   click_result, rows_wait, confirm_wait, reentries, row_errors, advances, fail_reason, gtd_exit, run_exit, saved>>
    /\ UNCHANGED enrich_vars

\* wait_for_element(By.XPATH, "//table//tbody/tr", condition="presence"):
\* the element, or None after the timeout.
WaitForRow ==
    IF WaitForElement("presence", RowsPresent).element = "None"
      THEN "timeout" ELSE "present"

\* Faulty variant of AfterRowWait: after a timeout the loop waits again.
AfterRowWaitAgain(result) == IF result = "timeout" THEN "AwaitingRows" ELSE "Extracting"

\* get_table_data: where the loop goes after the wait for a row. The result of
\* the wait is not read.
AfterRowWait(result) == "Extracting"

\* get_table_data: top of the loop, the wait for a row.
WaitRows ==
    /\ run_pc = "get_table_data"
    /\ pc = "AwaitingRows"
    /\ last_wait' = WaitForElement("presence", RowsPresent)
    /\ rows_wait' = WaitForRow
    /\ timed_out' = (timed_out \/ WaitForRow = "timeout")
    /\ IF last_wait'.raised # "none"
         THEN PageFails(last_wait'.raised)
         ELSE /\ pc' = AfterRowWait(WaitForRow)
              /\ UNCHANGED <<fail_reason, gtd_exit, run_pc, run_error>>
    /\ rows' = <<>>
    /\ row_idx' = 0
    /\ dropped' = {}
    /\ reentries' = 0
    /\ click_log' = <<>>
    /\ backoffs' = 0
    /\ click_result' = "none"
    /\ confirm_wait' = "none"
    /\ UNCHANGED <<old_output, filters, selected, first_shown, row_error_count, site, site_page, dom_page, driver, schools_data, processed_urls,
                   current_page, row_errors, advances, run_exit, saved>>
    /\ UNCHANGED enrich_vars

\* Whether find_elements has returned a row of url u before.
WasShown(u) == \E pair \in first_shown : pair[1] = u

\* _process_current_page: rows = self.driver.find_elements(...)
FindRows ==
    /\ run_pc = "get_table_data"
    /\ pc = "Extracting"
    /\ row_idx = 0
    /\ rows' = DomRows
    /\ row_idx' = 1
    /\ first_shown' = first_shown \cup
           {<<DomRows[i].url, dom_page>> : i \in {j \in 1..Len(DomRows) : ~WasShown(DomRows[j].url)}}
    /\ UNCHANGED <<old_output, filters, selected, row_error_count, dropped, last_wait, timed_out, site, site_page, dom_page, driver, schools_data, processed_urls,
                   current_page, run_pc, pc, click_log, backoffs, click_result,
                   rows_wait, confirm_wait, reentries, row_errors,
                   advances, fail_reason, gtd_exit, run_error, run_exit, saved>>
    /\ UNCHANGED enrich_vars

\* _process_current_page: driver.find_elements raises (the session is lost);
\* no handler of _process_current_page is around it, so the exception leaves
\* the try block of get_table_data.
FindRowsError ==
    /\ run_pc = "get_table_data"
    /\ pc = "Extracting"
    /\ row_idx = 0
    /\ PageFails("WebDriverException")
    /\ UNCHANGED <<old_output, filters, selected, first_shown, row_error_count, dropped, last_wait, timed_out, site, site_page, dom_page, driver, schools_data, processed_urls,
                   current_page, rows, row_idx, click_log, backoffs, click_result,
                   rows_wait, confirm_wait, reentries, row_errors,
                   advances, run_exit, saved>>
    /\ UNCHANGED enrich_vars

\* Faulty variant of IsProcessed: the duplicate test never fires.
IsProcessedNever(url, processed) == FALSE

\* `if url in self.processed_urls: continue`
IsProcessed(url, processed) == url \in processed

\* The record built from one row.
SchoolData(row, page) ==
    [name |-> row.name, url |-> row.url, district |-> row.district,
     address |-> row.address, grades |-> row.grades,
     phone |-> None, website |-> None, page_number |-> page]

\* _process_current_page: one row whose cells are all read without error.
ExtractRowOk ==
    /\ run_pc = "get_table_data"
    /\ pc = "Extracting"
    /\ row_idx \in 1..Len(rows)
    /\ LET row == rows[row_idx] IN
         IF IsProcessed(row.url, processed_urls)
           THEN UNCHANGED <<schools_data, processed_urls>>
           ELSE /\ schools_data' = Append(schools_data, SchoolData(row, current_page))
                /\ processed_urls' = processed_urls \cup {row.url}
    /\ row_idx' = row_idx + 1
    /\ UNCHANGED <<old_output, filters, selected, first_shown, row_error_count, dropped, last_wait, timed_out, site, site_page, dom_page, driver, current_page, run_pc, pc,
                   rows, click_log, backoffs, click_result, rows_wait,
                   confirm_wait, reentries, row_errors, advances,
                   fail_reason, gtd_exit, run_error, run_exit, saved>>
    /\ UNCHANGED enrich_vars

\* _process_current_page, `except StaleElementReferenceException`: whether the
\* handler enters _process_current_page again.
RetriesPage(n) == TRUE

\* `return self._process_current_page()` at nesting depth `depth`: the call is
\* made while the interpreter allows one more frame; beyond that the call
\* raises RecursionError.
RecursionAllowed(depth) == depth < MaxStale

\* _process_current_page: reading a cell of the row raises
\* StaleElementReferenceException; the page is processed again from its first
\* row (the recursive call; the loop of the caller is left when it returns).
\* The call is made in the `except` clause, outside every try block of
\* _process_current_page: a RecursionError it raises goes up through the
\* callers to the handler of get_table_data.
ExtractRowStale ==
    /\ run_pc = "get_table_data"
    /\ pc = "Extracting"
    /\ row_idx \in 1..Len(rows)
    /\ IF ~RetriesPage(reentries)
         THEN /\ row_idx' = row_idx + 1
              /\ reentries' = reentries
              /\ row_errors' = TRUE
              /\ dropped' = dropped \cup {rows[row_idx].url}
              /\ UNCHANGED <<pc, fail_reason, gtd_exit, run_pc, run_error>>
         ELSE IF RecursionAllowed(reentries)
           THEN /\ row_idx' = 0
                /\ reentries' = reentries + 1
                /\ row_errors' = row_errors
                /\ dropped' = {}
                /\ UNCHANGED <<pc, fail_reason, gtd_exit, run_pc, run_error>>
           ELSE /\ PageFails("RecursionError")
                /\ UNCHANGED <<row_idx, reentries, row_errors, dropped>>
    /\ UNCHANGED <<old_output, filters, selected, first_shown, row_error_count, last_wait, timed_out, site, site_page, dom_page, driver, schools_data, processed_urls,
                   current_page, rows, click_log, backoffs,
                   click_result, rows_wait, confirm_wait, advances,
                   run_exit, saved>>
    /\ UNCHANGED enrich_vars

\* Faulty variant of AfterRowError: the loop over the rows is left.
AfterRowErrorBreaks(idx, n) == n + 1

\* _process_current_page, `except Exception as e`: the handler logs; the
\* `for` loop goes on with the next row. `idx` is the row that raised, `n`
\* the number of rows.
AfterRowError(idx, n) == idx + 1

\* _process_current_page, `except Exception`: reading a cell raises another
\* exception, before the record is complete: nothing is appended, the row is
\* logged and dropped.
ExtractRowError ==
    /\ run_pc = "get_table_data"
    /\ pc = "Extracting"
    /\ row_idx \in 1..Len(rows)
    /\ row_error_count < MaxRowErrors
    /\ row_error_count' = row_error_count + 1
    /\ row_errors' = TRUE
    /\ dropped' = dropped \cup {rows[row_idx].url}
    /\ row_idx' = AfterRowError(row_idx, Len(rows))
    /\ UNCHANGED <<old_output, filters, selected, first_shown, last_wait, timed_out, site, site_page, dom_page, driver, schools_data, processed_urls,
                   current_page, run_pc, pc, rows, click_log, backoffs,
                   click_result, rows_wait, confirm_wait, reentries, advances, fail_reason, gtd_exit, run_error, run_exit, saved>>
    /\ UNCHANGED enrich_vars

\* _process_current_page returns: the loop over the rows is over.
FinishPage ==
    /\ run_pc = "get_table_data"
    /\ pc = "Extracting"
    /\ row_idx > Len(rows)
    /\ pc' = "CheckingNextPage"
    /\ UNCHANGED <<old_output, filters, selected, first_shown, row_error_count, dropped, last_wait, timed_out, site, site_page, dom_page, driver, schools_data, processed_urls,
                   current_page, run_pc, rows, row_idx, click_log, backoffs,
                   click_result, rows_wait, confirm_wait, reentries, row_errors, advances, fail_reason, gtd_exit, run_error,
                   run_exit, saved>>
    /\ UNCHANGED enrich_vars

\* The "next page" control as the site shows it: absent with no results,
\* flagged disabled on the last page.
NextControl ==
    IF NumPages = 0 THEN "absent"
    ELSE IF site_page >= NumPages THEN "disabled" ELSE "enabled"

\* wait_for_element(By.XPATH, "//button[...'Go to next page')]",
\* condition="clickable"): None for an absent control; a disabled control is
\* returned with its class, or not clickable within the timeout (None).
NextButtonResults ==
    IF NextControl = "absent" THEN {"None"}
    ELSE IF NextControl = "disabled" THEN {"None", "disabled"}
    ELSE {"enabled"}

\* Faulty variant of IsLastPage: the class of the control is not looked at.
IsLastPageIgnoresClass(button) == button = "None"

\* `if not next_button or "disabled" in next_button.get_attribute("class")`
IsLastPage(button) == button = "None" \/ button = "disabled"

\* get_table_data: the next-page control is looked for; the loop ends on the
\* last page.
CheckNext ==
    /\ run_pc = "get_table_data"
    /\ pc = "CheckingNextPage"
    /\ \E button \in NextButtonResults :
         LET w == WaitForElement("clickable", button # "None") IN
         /\ last_wait' = w
         /\ IF w.raised # "none"
              THEN PageFails(w.raised)
              ELSE /\ IF IsLastPage(IF w.element = "None" THEN "None" ELSE button)
                        THEN /\ pc' = "Done"
                             /\ gtd_exit' = "returned"
                             /\ run_pc' = "save_data"
                        ELSE /\ pc' = "Advancing"
                             /\ gtd_exit' = gtd_exit
                             /\ run_pc' = run_pc
                   /\ UNCHANGED <<fail_reason, run_error>>
    /\ UNCHANGED <<old_output, filters, selected, first_shown, row_error_count, dropped, timed_out, site, site_page, dom_page, driver, schools_data, processed_urls,
                   current_page, rows, row_idx, click_log, backoffs,
                   click_result, rows_wait, confirm_wait, reentries, row_errors, advances, run_exit, saved>>
    /\ UNCHANGED enrich_vars

\* Faulty variant of IsLastAttempt: the last attempt taken one too late.
IsLastAttemptOffByOne(attempt) == attempt = MaxRetries

\* _click_with_retry: `if attempt == max_retries - 1`, attempt counted from 0.
IsLastAttempt(attempt) == attempt = MaxRetries - 1

\* _click_with_retry: the exceptions the retry handler catches.
Retried == {"ElementClickIntercepted", "StaleElementReference"}

\* _click_with_retry: scrollIntoView and click succeed. The pager moves; the
\* table keeps the rows it shows or loses them until the page renders.
ClickOk ==
    /\ run_pc = "get_table_data"
    /\ pc = "Advancing"
    /\ Len(click_log) < MaxRetries
    /\ click_log' = Append(click_log, "ok")
    /\ site_page' = site_page + 1
    /\ \E d \in {dom_page, 0} : dom_page' = d
    /\ pc' = "Confirming"
    /\ UNCHANGED <<old_output, filters, selected, first_shown, row_error_count, dropped, last_wait, timed_out, site, driver, schools_data, processed_urls, current_page,
                   run_pc, rows, row_idx, backoffs, click_result, rows_wait,
                   confirm_wait, reentries, row_errors, advances,
                   fail_reason, gtd_exit, run_error, run_exit, saved>>
    /\ UNCHANGED enrich_vars

\* _click_with_retry: scrollIntoView or click raises an exception of the
\* retry handler: raised again on the last attempt, else a backoff.
ClickRetried ==
    /\ run_pc = "get_table_data"
    /\ pc = "Advancing"
    /\ Len(click_log) < MaxRetries
    /\ \E e \in Retried :
         /\ click_log' = Append(click_log, e)
         /\ IF IsLastAttempt(Len(click_log))
              THEN /\ click_result' = e
                   /\ backoffs' = backoffs
                   /\ PageFails(e)
              ELSE /\ click_result' = click_result
                   /\ backoffs' = backoffs + 1
                   /\ UNCHANGED <<pc, fail_reason, gtd_exit, run_pc, run_error>>
    /\ UNCHANGED <<old_output, filters, selected, first_shown, row_error_count, dropped, last_wait, timed_out, site, site_page, dom_page, driver, schools_data, processed_urls,
                   current_page, rows, row_idx, rows_wait, confirm_wait,
                   reentries, row_errors, advances, run_exit, saved>>
    /\ UNCHANGED enrich_vars

\* _click_with_retry: scrollIntoView or click raises any other exception,
\* which no handler of _click_with_retry catches.
ClickError ==
    /\ run_pc = "get_table_data"
    /\ pc = "Advancing"
    /\ Len(click_log) < MaxRetries
    /\ click_log' = Append(click_log, "WebDriverException")
    /\ click_result' = "WebDriverException"
    /\ PageFails("WebDriverException")
    /\ UNCHANGED <<old_output, filters, selected, first_shown, row_error_count, dropped, last_wait, timed_out, site, site_page, dom_page, driver, schools_data, processed_urls,
                   current_page, rows, row_idx, backoffs, rows_wait, confirm_wait,
                   reentries, row_errors, advances, run_exit, saved>>
    /\ UNCHANGED enrich_vars

\* Faulty variant of NextPageNumber: the page counted twice.
NextPageNumberTwice(page) == page + 2

\* get_table_data: `self.current_page += 1`
NextPageNumber(page) == page + 1

\* _click_with_retry: the wait for a row after the click, whose result is not
\* read; `return True`; then get_table_data counts the page.
ConfirmWait ==
    /\ run_pc = "get_table_data"
    /\ pc = "Confirming"
    /\ last_wait' = WaitForElement("presence", RowsPresent)
    /\ confirm_wait' = WaitForRow
    /\ timed_out' = (timed_out \/ WaitForRow = "timeout")
    /\ IF last_wait'.raised # "none"
         THEN /\ click_result' = last_wait'.raised
              /\ PageFails(last_wait'.raised)
              /\ UNCHANGED <<advances, current_page>>
         ELSE /\ click_result' = "True"
              /\ advances' = advances + 1
              /\ current_page' = NextPageNumber(current_page)
              /\ pc' = "AwaitingRows"
              /\ UNCHANGED <<fail_reason, gtd_exit, run_pc, run_error>>
    /\ UNCHANGED <<old_output, filters, selected, first_shown, row_error_count, dropped, site, site_page, dom_page, driver, schools_data, processed_urls,
                   rows, row_idx, click_log, backoffs, rows_wait,
                   reentries, row_errors, run_exit, saved>>
    /\ UNCHANGED enrich_vars

\* The crawler is about to read the table: a wait for a row, or find_elements.
ReadsTable ==
    \/ pc \in {"AwaitingRows", "Confirming"}
    \/ pc = "Extracting" /\ row_idx = 0

\* The environment: the table renders the rows of the page the pager is on.
\* Rendering is observed only where the crawler reads the table, so it is
\* taken just before such a read.
Render ==
    /\ run_pc = "get_table_data"
    /\ ReadsTable
    /\ site_page \in 1..NumPages
    /\ dom_page # site_page
    /\ dom_page' = site_page
    /\ UNCHANGED <<old_output, filters, selected, first_shown, row_error_count, dropped, last_wait, timed_out, site, site_page, driver, schools_data, processed_urls,
                   current_page, run_pc, pc, rows, row_idx, click_log, backoffs,
                   click_result, rows_wait, confirm_wait, reentries, row_errors, advances, fail_reason, gtd_exit, run_error,
                   run_exit, saved>>
    /\ UNCHANGED enrich_vars

\* Faulty variant of SaveDataFrame: the last record is left out of the file.
SaveDataFrameDropsLast(data) == SubSeq(data, 1, Len(data) - 1)

\* save_data: df = pd.DataFrame(self.schools_data), the dataset written: one
\* line per record, in the order of the list.
SaveDataFrame(data) == data

\* run: self.save_data(output_file)
SaveData ==
    /\ run_pc = "save_data"
    /\ saved' = <<SaveDataFrame(schools_data)>>
    /\ run_pc' = "cleanup"
    /\ UNCHANGED <<old_output, filters, selected, first_shown, row_error_count, dropped, last_wait, timed_out, site, site_page, dom_page, driver, schools_data, processed_urls,
                   current_page, pc, rows, row_idx, click_log, backoffs,
                   click_result, rows_wait, confirm_wait, reentries, row_errors, advances, fail_reason, gtd_exit, run_error,
                   run_exit>>
    /\ UNCHANGED enrich_vars

\* Faulty variant of CleanedUp: the session is left as it is.
CleanedUpLeavesOpen(d) == d

\* BaseWebDriver.cleanup: `if self.driver: self.driver.quit()`
CleanedUp(d) == IF d = "active" THEN "quit" ELSE d

\* run: the handler logs the exception, `finally: self.cleanup()`, and run ends.
Cleanup ==
    /\ run_pc = "cleanup"
    /\ driver' = CleanedUp(driver)
    /\ run_exit' = IF run_error = "none" \/ RunCatches(run_error)
                     THEN "returned" ELSE "raised"
    /\ run_pc' = "returned"
    /\ UNCHANGED <<old_output, filters, selected, first_shown, row_error_count, dropped, last_wait, timed_out, site, site_page, dom_page, schools_data, processed_urls,
                   current_page, pc, rows, row_idx, click_log, backoffs,
                   click_result, rows_wait, confirm_wait, reentries, row_errors, advances, fail_reason, gtd_exit, run_error, saved>>
    /\ UNCHANGED enrich_vars

\* ---------------------------------------------- the enrichment: inputs
\* The record at position i of the input file and the detail page of its url
\* are drawn from a table of kinds: the loaded phone (NaN or a text), the
\* loaded website (NaN or a text), what the detail page shows after the phone
\* label, what its website anchor holds, and whether driver.get or the
\* extraction fails. Arrangement `s` starts the table at another place.
KindAt(s, i) == (i + 37 * s) % 144

LoadedPhone(k) == IF k % 2 = 0 THEN NaN ELSE <<"5", "1", "2">>

LoadedWebsite(k) == IF (k \div 2) % 2 = 0 THEN NaN ELSE <<"x", ".", "o", "r", "g">>

\* The detail page: whether the text "PHONE:" is found, the text node after
\* it (None if there is none), whether an anchor of the button class with an
\* href is found, and its href.
DetailPage(k) ==
    LET ph == (k \div 4) % 4
        wb == (k \div 16) % 3
    IN [phone_label |-> ph # 0,
        next_text   |-> IF ph = 1 THEN None
                        ELSE IF ph = 2 THEN <<" ", " ">>
                        ELSE <<" ", "5", "5", "5", " ">>,
        anchor      |-> wb # 0,
        href        |-> IF wb = 1 THEN <<>> ELSE <<"y", ".", "o", "r", "g">>]

\* "none" | "get": driver.get raises | "extract": the extraction raises.
FaultOf(k) ==
    LET f == (k \div 48) % 3
    IN IF f = 0 THEN "none" ELSE IF f = 1 THEN "get" ELSE "extract"

\* One record of the input file, as read_csv loads it.
LoadedRecord(s, i) ==
    [name |-> <<"name", i>>, url |-> i, district |-> <<"district", i % 2>>,
     address |-> <<"address", i>>, grades |-> <<"grades", i % 3>>,
     phone |-> LoadedPhone(KindAt(s, i)), website |-> LoadedWebsite(KindAt(s, i)),
     page_number |-> ((i - 1) \div 2) + 1]

\* BaseSchoolEnricher.__init__, with the input file the run is given.
InitEnrich ==
    /\ seed \in 0..(NumSeeds - 1)
    /\ \E n \in 0..MaxRecords : input_csv = <<[i \in 1..n |-> LoadedRecord(seed, i)]>>
    /\ e_driver = "None"
    /\ driver_url = 0
    /\ df = <<>>
    /\ updated_df = <<>>
    /\ index = 0
    /\ processed_count = 0
    /\ new_data = <<>>
    /\ e_pc = "read_csv"
    /\ navs = 0
    /\ extracts = 0
    /\ sleeps = 0
    /\ flushed_at = {}
    /\ intermediate_csv = <<>>
    /\ enriched_csv = <<>>
    /\ e_error = "none"
    /\ e_exit = "none"
    /\ original_size = Len(input_csv[1])
    /\ input_name = "original"

\* The scraper before it is constructed: no part of the enrichment touches it.
CrawlIdle ==
    /\ site = <<>>
    /\ site_page = 1
    /\ dom_page = 0
    /\ driver = "None"
    /\ schools_data = <<>>
    /\ processed_urls = {}
    /\ current_page = 1
    /\ run_pc = "idle"
    /\ pc = "Idle"
    /\ rows = <<>>
    /\ row_idx = 0
    /\ click_log = <<>>
    /\ backoffs = 0
    /\ click_result = "none"
    /\ rows_wait = "none"
    /\ confirm_wait = "none"
    /\ timed_out = FALSE
    /\ last_wait = NoWait
    /\ reentries = 0
    /\ row_errors = FALSE
    /\ dropped = {}
    /\ row_error_count = 0
    /\ advances = 0
    /\ fail_reason = "none"
    /\ gtd_exit = "none"
    /\ run_error = "none"
    /\ run_exit = "none"
    /\ saved = <<>>
    /\ old_output = <<>>
    /\ filters = <<>>
    /\ selected = <<>>
    /\ first_shown = {}

\* ------------------------------------------------ TexasSchoolEnricher
\* pd.isna / pd.notna of a field.
IsNa(v) == v = NaN \/ v = None

NotNa(v) == ~IsNa(v)

\* Python's truth value of a candidate: None and the empty text are false.
Truthy(v) == v # None /\ v # <<>>

\* str.strip()
RECURSIVE LStrip(_)
LStrip(t) == IF t # <<>> /\ Head(t) = " " THEN LStrip(Tail(t)) ELSE t

RECURSIVE RStrip(_)
RStrip(t) == IF t # <<>> /\ t[Len(t)] = " " THEN RStrip(SubSeq(t, 1, Len(t) - 1)) ELSE t

Strip(t) == RStrip(LStrip(t))

\* Faulty variant of HasCompleteData: isna written for notna.
HasCompleteDataInverted(row) == IsNa(row.phone) /\ IsNa(row.website)

\* TexasSchoolEnricher.has_complete_data
HasCompleteData(row) == NotNa(row.phone) /\ NotNa(row.website)

\* TexasSchoolEnricher.extract_additional_data: the dict it returns for a page;
\* an exception inside it gives {"phone": None, "website": None}.
ExtractAdditionalData(page, raises) ==
    IF raises THEN [phone |-> None, website |-> None]
    ELSE [phone   |-> IF page.phone_label /\ Truthy(page.next_text)
                        THEN Strip(page.next_text) ELSE None,
          website |-> IF page.anchor /\ Truthy(page.href) THEN page.href ELSE None]

\* Faulty variant of MergeField: the test of the existing value left out.
MergeFieldOverwrites(existing, value) == IF Truthy(value) THEN value ELSE existing

\* process_school: `if value and pd.isna(row[key]): row[key] = value`
MergeField(existing, value) ==
    IF Truthy(value) /\ IsNa(existing) THEN value ELSE existing

\* Faulty variant of Merge: the phone candidate written under the key name.
MergeWritesName(row, data) ==
    [row EXCEPT !.name = MergeField(row.phone, data.phone),
                !.website = MergeField(row.website, data.website)]

\* process_school: the loop over new_data.items()
Merge(row, data) ==
    [row EXCEPT !.phone = MergeField(row.phone, data.phone),
                !.website = MergeField(row.website, data.website)]

\* run: self.df = pd.read_csv(self.input_csv). It raises when there is no file
\* at the path (FileNotFoundError) or when the file cannot be read or parsed.
ReadCsv ==
    /\ e_pc = "read_csv"
    /\ \E ok \in BOOLEAN :
         IF ok /\ input_csv # <<>>
           THEN /\ df' = input_csv[1]
                /\ e_pc' = "setup_driver"
                /\ e_error' = e_error
           ELSE /\ df' = df
                /\ e_pc' = "cleanup"
                /\ e_error' = "FileNotFoundError"
    /\ UNCHANGED <<original_size, input_name, seed, input_csv, e_driver, driver_url, updated_df, index,
                   processed_count, new_data, navs, extracts, sleeps, flushed_at,
                   intermediate_csv, enriched_csv, e_exit>>
    /\ UNCHANGED crawl_vars

\* run: self.setup_driver(); updated_df = self.df.copy()
SetupDriverE ==
    /\ e_pc = "setup_driver"
    /\ \E ok \in BOOLEAN :
         IF ok
           THEN /\ e_driver' = "active"
                /\ updated_df' = df
                /\ e_pc' = IF Len(df) > 0 THEN "process_school" ELSE "final"
                /\ e_error' = e_error
           ELSE /\ e_driver' = e_driver
                /\ updated_df' = updated_df
                /\ e_pc' = "cleanup"
                /\ e_error' = "SessionStartError"
    /\ UNCHANGED <<original_size, input_name, seed, input_csv, driver_url, df, index, processed_count,
                   new_data, navs, extracts, sleeps, flushed_at,
                   intermediate_csv, enriched_csv, e_exit>>
    /\ UNCHANGED crawl_vars

\* run: updated_row = self.process_school(row); updated_df.iloc[index] = updated_row
\* for a row that has complete data: returned as it is.
ProcessSkip ==
    /\ e_pc = "process_school"
    /\ HasCompleteData(updated_df[index + 1])
    /\ e_pc' = "checkpoint"
    /\ new_data' = <<>>
    /\ UNCHANGED <<original_size, input_name, seed, input_csv, e_driver, driver_url, df, updated_df, index,
                   processed_count, navs, extracts, sleeps, flushed_at,
                   intermediate_csv, enriched_csv, e_error, e_exit>>
    /\ UNCHANGED crawl_vars

\* Faulty variant of ProcessCatches: a handler that catches nothing.
ProcessCatchesNothing(e) == FALSE

\* `except Exception as e` of process_school: the exceptions it catches; it
\* logs and returns the row.
ProcessCatches(e) == TRUE

\* process_school: driver.get(row["url"]) raises; the handler logs and returns
\* the row, which no statement before driver.get has written to.
ProcessGetFails ==
    /\ e_pc = "process_school"
    /\ ~HasCompleteData(updated_df[index + 1])
    /\ FaultOf(KindAt(seed, index + 1)) = "get"
    /\ navs' = navs + 1
    /\ IF ProcessCatches("WebDriverException")
         THEN /\ e_pc' = "checkpoint"
              /\ e_error' = e_error
         ELSE /\ e_pc' = "cleanup"
              /\ e_error' = "WebDriverException"
    /\ new_data' = <<>>
    /\ UNCHANGED <<original_size, input_name, seed, input_csv, e_driver, driver_url, df, updated_df, index,
                   processed_count, extracts, sleeps, flushed_at,
                   intermediate_csv, enriched_csv, e_exit>>
    /\ UNCHANGED crawl_vars

\* process_school: the page is loaded, scraped and merged into the row; the
\* rate-limit sleep; the count.
ProcessSchool ==
    /\ e_pc = "process_school"
    /\ ~HasCompleteData(updated_df[index + 1])
    /\ FaultOf(KindAt(seed, index + 1)) # "get"
    /\ LET row  == updated_df[index + 1]
           k    == KindAt(seed, index + 1)
           data == ExtractAdditionalData(DetailPage(k), FaultOf(k) = "extract")
       IN /\ driver_url' = row.url
          /\ new_data' = <<data>>
          /\ updated_df' = [updated_df EXCEPT ![index + 1] = Merge(row, data)]
    /\ navs' = navs + 1
    /\ extracts' = extracts + 1
    /\ sleeps' = sleeps + 1
    /\ processed_count' = processed_count + 1
    /\ e_pc' = "checkpoint"
    /\ UNCHANGED <<original_size, input_name, seed, input_csv, e_driver, df, index, flushed_at,
                   intermediate_csv, enriched_csv, e_error, e_exit>>
    /\ UNCHANGED crawl_vars

\* Faulty variant of IsCheckpoint: the 0-based index tested.
IsCheckpointZeroBased(i) == i % CheckpointEvery = 0

\* run: `if (index + 1) % 50 == 0`
IsCheckpoint(i) == (i + 1) % CheckpointEvery = 0

\* Faulty variant of CheckpointFrame: only the rows processed so far.
CheckpointFrameProcessedOnly(frame, i) == SubSeq(frame, 1, i + 1)

\* run: `updated_df.to_csv(f"intermediate_{self.input_csv}", index=False)`: the
\* rows the intermediate file holds: the whole frame, the rows not yet
\* processed included.
CheckpointFrame(frame, i) == frame

\* run: the end of one iteration of the loop: the intermediate file is written
\* after every 50th row; the loop goes to the next row.
Checkpoint ==
    /\ e_pc = "checkpoint"
    /\ IF IsCheckpoint(index)
         THEN /\ intermediate_csv' = <<CheckpointFrame(updated_df, index)>>
              /\ flushed_at' = flushed_at \cup {index + 1}
         ELSE UNCHANGED <<intermediate_csv, flushed_at>>
    /\ index' = index + 1
    /\ e_pc' = IF index + 1 < Len(updated_df) THEN "process_school" ELSE "final"
    /\ UNCHANGED <<original_size, input_name, seed, input_csv, e_driver, driver_url, df, updated_df,
                   processed_count, new_data, navs, extracts, sleeps,
                   enriched_csv, e_error, e_exit>>
    /\ UNCHANGED crawl_vars

\* run: updated_df.to_csv(f"intermediate_{self.input_csv}") raises (the file
\* cannot be written). No handler is around the call inside the loop: the
\* exception leaves the loop for the `except Exception` of run.
CheckpointFails ==
    /\ e_pc = "checkpoint"
    /\ IsCheckpoint(index)
    /\ e_error' = "OSError"
    /\ e_pc' = "cleanup"
    /\ UNCHANGED <<original_size, input_name, seed, input_csv, e_driver, driver_url, df, updated_df, index,
                   processed_count, new_data, navs, extracts, sleeps, flushed_at,
                   intermediate_csv, enriched_csv, e_exit>>
    /\ UNCHANGED crawl_vars

\* run: updated_df.to_csv(f"enriched_{self.input_csv}"); log_final_statistics
FinalExport ==
    /\ e_pc = "final"
    /\ enriched_csv' = <<updated_df>>
    /\ e_pc' = "cleanup"
    /\ UNCHANGED <<original_size, input_name, seed, input_csv, e_driver, driver_url, df, updated_df, index,
                   processed_count, new_data, navs, extracts, sleeps, flushed_at,
                   intermediate_csv, e_error, e_exit>>
    /\ UNCHANGED crawl_vars

\* run: `except Exception: ... raise` and `finally: self.cleanup()`
CleanupE ==
    /\ e_pc = "cleanup"
    /\ e_driver' = CleanedUp(e_driver)
    /\ e_exit' = IF e_error = "none" THEN "returned" ELSE "raised"
    /\ e_pc' = "ended"
    /\ UNCHANGED <<original_size, input_name, seed, input_csv, driver_url, df, updated_df, index,
                   processed_count, new_data, navs, extracts, sleeps, flushed_at,
                   intermediate_csv, enriched_csv, e_error>>
    /\ UNCHANGED crawl_vars

\* ------------------------------------------------ the CSV files
\* DataFrame.to_csv: the text written for a field. None and NaN are written
\* as the empty text (na_rep = "").
CsvCell(v) == IF IsNa(v) THEN <<>> ELSE v

\* pd.read_csv: the value loaded for a field. The empty text is loaded as NaN.
CsvValue(c) == IF c = <<>> THEN NaN ELSE c

\* What read_csv loads from the file to_csv wrote for one record.
ReadBackRecord(r) ==
    [r EXCEPT !.name = CsvValue(CsvCell(@)),
              !.district = CsvValue(CsvCell(@)),
              !.address = CsvValue(CsvCell(@)),
              !.grades = CsvValue(CsvCell(@)),
              !.phone = CsvValue(CsvCell(@)),
              !.website = CsvValue(CsvCell(@))]

\* What read_csv loads from the file to_csv wrote for a record set.
ReadBack(data) == [i \in 1..Len(data) |-> ReadBackRecord(data[i])]

\* ------------------------------------------------ main.py
\* A dataset that was left at the output path before the run.
EarlierDataset == [i \in 1..CheckpointEvery |-> LoadedRecord(0, i)]

\* The file at "texas_schools_basic_data.csv": what save_data wrote, or else
\* what was there before the run.
OutputFile == IF saved # <<>> THEN saved ELSE old_output

\* scrape_texas_schools: scraper.run(...) has returned;
\* enricher = TexasSchoolEnricher("texas_schools_basic_data.csv"); enricher.run()
EnricherStarts ==
    /\ run_pc = "returned"
    /\ run_exit = "returned"
    /\ e_pc = "idle"
    /\ input_csv' = IF OutputFile = <<>> THEN <<>> ELSE <<ReadBack(OutputFile[1])>>
    /\ seed' \in 0..(NumSeeds - 1)
    /\ input_name' = "original"
    /\ original_size' = IF OutputFile = <<>> THEN 0 ELSE Len(OutputFile[1])
    /\ e_pc' = "read_csv"
    /\ UNCHANGED <<e_driver, driver_url, df, updated_df, index, processed_count,
                   new_data, navs, extracts, sleeps, flushed_at,
                   intermediate_csv, enriched_csv, e_error, e_exit>>
    /\ UNCHANGED crawl_vars

\* An enricher constructed on a file an earlier enrich run wrote (its
\* intermediate file or its final export) and run: the earlier run has ended
\* or its process was terminated. The files of the new run are named after
\* its input, so none of them exists yet.
Rerun ==
    /\ e_pc # "idle"
    /\ \E name \in {"intermediate", "enriched"} :
         LET file == IF name = "intermediate" THEN intermediate_csv ELSE enriched_csv IN
         /\ file # <<>>
         /\ input_csv' = <<ReadBack(file[1])>>
         /\ input_name' = name
    /\ e_driver' = "None"
    /\ driver_url' = 0
    /\ df' = <<>>
    /\ updated_df' = <<>>
    /\ index' = 0
    /\ processed_count' = 0
    /\ new_data' = <<>>
    /\ e_pc' = "read_csv"
    /\ navs' = 0
    /\ extracts' = 0
    /\ sleeps' = 0
    /\ flushed_at' = {}
    /\ intermediate_csv' = <<>>
    /\ enriched_csv' = <<>>
    /\ e_error' = "none"
    /\ e_exit' = "none"
    /\ UNCHANGED <<original_size, seed>>
    /\ UNCHANGED crawl_vars

NextEnrich ==
    \/ ReadCsv
    \/ SetupDriverE
    \/ ProcessSkip
    \/ ProcessGetFails
    \/ ProcessSchool
    \/ Checkpoint
    \/ CheckpointFails
    \/ FinalExport
    \/ CleanupE

EnrichInit == InitEnrich /\ CrawlIdle

SpecEnrich == EnrichInit /\ [][NextEnrich]_vars

\* Enrich runs one after the other, each but the first on a file the one
\* before it wrote.
NextResume == NextEnrich \/ Rerun

SpecResume == EnrichInit /\ [][NextResume]_vars

Next ==
    \/ SetupDriver
    \/ ApplyFilters
    \/ WaitRows
    \/ FindRows
    \/ FindRowsError
    \/ ExtractRowOk
    \/ ExtractRowStale
    \/ ExtractRowError
    \/ FinishPage
    \/ CheckNext
    \/ ClickOk
    \/ ClickRetried
    \/ ClickError
    \/ ConfirmWait
    \/ Render
    \/ SaveData
    \/ Cleanup

Init == InitCrawl /\ EnrichIdle

Spec == Init /\ [][Next]_vars

\* The crawl as a running program: the interpreter always takes the next
\* step of run while there is one, and a page that is loading renders.
SpecLive == Init /\ [][Next]_vars /\ WF_vars(Next)

\* Either run, as main.py and the entry points of the modules start them: the
\* scrape run of a scraper, or the enrich run of an enricher.
RunsInit == (InitCrawl /\ EnrichIdle) \/ (InitEnrich /\ CrawlIdle)

NextRuns == Next \/ NextEnrich

SpecRuns == RunsInit /\ [][NextRuns]_vars

\* The listing crawler called with any filter sequence.
InitAnyFilters == CrawlAnyFilters /\ EnrichIdle

SpecAnyFilters == InitAnyFilters /\ [][Next]_vars

\* main.py, scrape_texas_schools: the scrape run, then the enrich run on its
\* output path, in a directory with or without a file of an earlier run.
PipelineInit ==
    /\ \E old \in {<<>>, <<EarlierDataset>>} : InitCrawlWith(Filters, old)
    /\ EnrichIdle

NextPipeline == Next \/ EnricherStarts \/ NextEnrich

SpecPipeline == PipelineInit /\ [][NextPipeline]_vars

\* ==================================================================
\* Properties
\* ==================================================================

\* ---- the listing crawler (Spec)

StoredUrls == {schools_data[i].url : i \in 1..Len(schools_data)}

NoTwoRecordsShareUrl ==
    \A i, j \in 1..Len(schools_data) :
        schools_data[i].url = schools_data[j].url => i = j

\* The row loop is at a row whose url is already in processed_urls.
AtSeenRow ==
    /\ pc = "Extracting"
    /\ row_idx \in 1..Len(rows)
    /\ rows[row_idx].url \in processed_urls

\* C1: dedup invariant. In every reachable state no two stored records share a
\* url, and a step of the row loop at a row whose url is already in
\* processed_urls leaves the stored records (hence their count) unchanged,
\* whatever happens to the row (skip, stale re-entry, row error).
C1_Dedup ==
    /\ []NoTwoRecordsShareUrl
    /\ [][AtSeenRow => schools_data' = schools_data]_vars

\* C1 witness: after a stale re-entry on a page, the first row, already stored,
\* has been visited again and skipped.
C1_Witness ==
    /\ pc = "Extracting"
    /\ reentries >= 1
    /\ row_idx = 2
    /\ ~row_errors
    /\ rows[1].url \in processed_urls
    /\ Len(schools_data) >= 1

\* C3: completeness of the crawl, as claimed: when get_table_data ends on the
\* last page (Done) and no row was dropped by a row error, every url of every
\* page of the site has a record (stated for the crawls in which no wait for
\* a row timed out, so that every page did render). The code violates it: when the table still
\* shows the rows of the previous page after a click, those rows are read
\* again (all duplicates) and the rows of the new page are never read.
C3_Complete ==
    (pc = "Done" /\ ~row_errors /\ ~timed_out) => AllUrls \subseteq StoredUrls

\* C4: monotonic pagination. current_page is 1 plus the number of times
\* _click_with_retry returned True; a step changes it only when
\* _click_with_retry returns True, then by exactly 1.
C4_MonotonicPage ==
    /\ [](current_page = 1 + advances)
    /\ [][current_page' =
            current_page + (IF click_result' = "True" /\ click_result # "True"
                              THEN 1 ELSE 0)]_vars

\* C4 witness: the click failed twice and succeeded on the third attempt; the
\* page is counted once.
C4_Witness ==
    /\ pc = "AwaitingRows"
    /\ click_result = "True"
    /\ backoffs = 2
    /\ advances = 1
    /\ current_page = 2

\* C7: stale recovery capped, as claimed: _process_current_page is entered
\* again at most once per page. The code violates it: every stale condition
\* enters the page again.
C7_StaleCapped == reentries <= 1

\* C8: as claimed: when the wait for a row at the top of an iteration times
\* out, get_table_data is in Failed. The code violates it: the result of the
\* wait is not read and the page is extracted.
C8_RowTimeoutFails == rows_wait = "timeout" => pc = "Failed"

ClickFailures == {"ElementClickIntercepted", "StaleElementReference"}

\* C9: bounded-retry click protocol, for the calls in which only intercepted
\* and stale failures occur. At most 3 attempts; an attempt is made only after
\* failed ones; success is returned exactly after the first attempt that does
\* not fail; the exception of the 3rd failed attempt is raised; one backoff
\* precedes every attempt after the first and none follows the 3rd failure.
C9_ClickProtocol ==
    LET n == Len(click_log) IN
    (\A i \in 1..n : click_log[i] \in ClickFailures \cup {"ok"}) =>
        /\ n <= 3
        /\ \A i \in 1..(n - 1) : click_log[i] \in ClickFailures
        /\ (n >= 1 /\ click_log[n] = "ok") =>
              /\ backoffs = n - 1
              /\ click_result \in {"none", "True"}
              /\ click_result = "none" <=> pc = "Confirming"
        /\ (n >= 1 /\ click_log[n] \in ClickFailures /\ n < 3) =>
              /\ backoffs = n
              /\ click_result = "none"
              /\ pc = "Advancing"
        /\ (n = 3 /\ click_log[n] \in ClickFailures) =>
              /\ backoffs = 2
              /\ click_result = click_log[3]
              /\ pc = "Failed"
        /\ click_result = "True" => (n >= 1 /\ click_log[n] = "ok")
        /\ click_result \in ClickFailures => n = 3

\* C9 witness: three failed attempts, the last one stale: its exception is
\* raised after two backoffs.
C9_Witness ==
    /\ Len(click_log) = 3
    /\ click_log[1] = "ElementClickIntercepted"
    /\ click_log[3] = "StaleElementReference"
    /\ click_result = "StaleElementReference"
    /\ backoffs = 2

RecordsKept ==
    /\ Len(schools_data') >= Len(schools_data)
    /\ \A i \in 1..Len(schools_data) : schools_data'[i] = schools_data[i]

\* C11: partial results survive a crawl failure. No step removes or alters a
\* stored record; the step in which the pagination loop stops on a failure,
\* and every step after it, leaves the records as they are; after such a
\* failure run goes on to save_data, and the file it writes holds exactly the
\* records collected before the failure.
C11_PartialResultsSurvive ==
    /\ [][RecordsKept]_vars
    /\ [][pc' = "Failed" => schools_data' = schools_data]_vars
    /\ [](pc = "Failed" =>
            /\ run_pc \in {"save_data", "cleanup", "returned"}
            /\ run_pc # "save_data" => saved = <<schools_data>>)

\* C11 witness: the session was lost on the second page; run has returned and
\* the file holds the records of the first page.
C11_Witness ==
    /\ pc = "Failed"
    /\ fail_reason = "WebDriverException"
    /\ current_page = 2
    /\ click_log = <<>>
    /\ run_exit = "returned"
    /\ saved # <<>>
    /\ Len(saved[1]) = RowsPerPage
    /\ saved[1] = schools_data

\* C17, as claimed: _click_with_retry returns True (and current_page is then
\* incremented) only when the wait for a row after the click found a row. The
\* code violates it: the result of that wait is not read, and True is
\* returned after a timeout as well.
C17_AdvanceConfirmed ==
    click_result = "True" => confirm_wait = "present"

\* What a wait that timed out gives: None, one error line, no exception.
TimedOut(condition) ==
    [condition |-> condition, element |-> "None", errors |-> 1, raised |-> "none"]

\* C16: soft timeout. Every call of wait_for_element whose condition does not
\* come to hold gives None with exactly one error line and raises nothing,
\* for the presence waits (for a row, at the top of an iteration and after a
\* click) and the clickable waits (for the filter control, for the next-page
\* control); the caller goes on with its next statement, and no
\* TimeoutException ever reaches a handler of get_table_data or of run.
C16_SoftTimeout ==
    /\ [](last_wait.element = "None" => last_wait = TimedOut(last_wait.condition))
    /\ [](fail_reason # "TimeoutException" /\ run_error # "TimeoutException")
    /\ [][(run_pc = "get_table_data" /\ pc = "AwaitingRows" /\ pc' # pc /\ ~RowsPresent) =>
            /\ last_wait' = TimedOut("presence")
            /\ pc' = "Extracting"]_vars
    /\ [][(run_pc = "get_table_data" /\ pc = "Confirming" /\ pc' # pc /\ ~RowsPresent) =>
            /\ last_wait' = TimedOut("presence")
            /\ pc' = "AwaitingRows"]_vars
    /\ [][(run_pc = "get_table_data" /\ pc = "CheckingNextPage" /\ pc' # pc
            /\ last_wait'.element = "None") =>
            /\ last_wait' = TimedOut("clickable")
            /\ pc' = "Done"]_vars
    /\ [][(run_pc = "apply_filters" /\ run_pc' # run_pc /\ last_wait'.element = "None") =>
            /\ last_wait' = TimedOut("clickable")
            /\ run_error' \in {"none", "AttributeError"}]_vars

\* C16 witness: in one iteration the wait for a row timed out (presence) and
\* then the wait for the next-page control did (clickable); get_table_data
\* went on after each and ended without an error.
C16_Witness ==
    /\ rows_wait = "timeout"
    /\ last_wait = TimedOut("clickable")
    /\ pc = "Done"
    /\ fail_reason = "none"

\* get_table_data has ended, in Done or in Failed.
CrawlEnded == pc \in {"Done", "Failed"}

\* run has left its try block before get_table_data was called (the session
\* did not start, or the filters could not be applied).
CrawlNeverStarted == pc = "Idle" /\ run_pc \in {"cleanup", "returned"}

\* C18: collectAll terminates. For every site (a finite list of pages, the
\* next-page control absent or disabled on the last one) and whatever stale
\* conditions, row errors, click failures and timeouts occur, a running
\* crawl reaches Done or Failed (unless run is aborted before get_table_data
\* starts). Stale conditions are not limited by the environment: a page is
\* entered again on each of them until the interpreter refuses the nested
\* call, which ends the crawl in Failed.
C18_Terminates == <>(CrawlEnded \/ CrawlNeverStarted)

\* C18 witness: the crawl reached Done on a later page after a wait for a row
\* had timed out and the last page had been entered again as often as the
\* interpreter allows.
C18_Witness ==
    /\ pc = "Done"
    /\ current_page >= 2
    /\ timed_out
    /\ reentries = MaxStale

\* The rows of the page the row loop has gone past in this pass: those before
\* the row it is at, and all of them once the pass is over.
PassedRows ==
    IF pc = "Extracting" THEN 1..(row_idx - 1)
    ELSE IF pc \in {"CheckingNextPage", "Advancing", "Confirming", "Done"}
      THEN 1..Len(rows)
    ELSE {}

\* A step in which the generic handler of the row loop drops a row.
RowDropped == dropped' # dropped /\ dropped' # {}

\* C19: row-level error isolation. The step in which a row raises a
\* non-stale error stores nothing of that row and adds nothing to
\* processed_urls, leaves every stored record as it is, and moves the loop to
\* the next row of the same page; every row the loop has gone past is stored
\* unless it is one of the rows dropped; and processed_urls is always the
\* set of urls of the stored records.
C19_RowErrorIsolated ==
    /\ [](processed_urls = StoredUrls)
    /\ [][RowDropped =>
            /\ dropped' = dropped \cup {rows[row_idx].url}
            /\ schools_data' = schools_data
            /\ processed_urls' = processed_urls
            /\ rows' = rows
            /\ row_idx' = row_idx + 1
            /\ pc' = "Extracting"]_vars
    /\ [](\A i \in PassedRows :
            rows[i].url \in StoredUrls \/ rows[i].url \in dropped)

\* C19 witness: on the second page the first row raised and was dropped; the
\* records of the first page are still stored, the later rows of the second
\* page were extracted, and the url of the dropped row is in neither set.
C19_Witness ==
    /\ pc = "CheckingNextPage"
    /\ current_page = 2
    /\ Len(rows) = RowsPerPage
    /\ dropped = {rows[1].url}
    /\ rows[1].url \notin processed_urls
    /\ \A i \in 2..Len(rows) : rows[i].url \in StoredUrls
    /\ Len(schools_data) = 2 * RowsPerPage - 1
    /\ \A i \in 1..RowsPerPage : schools_data[i].page_number = 1

C21_PageOfFirstSighting ==
    \A i \in 1..Len(schools_data) :
        <<schools_data[i].url, schools_data[i].page_number>> \in first_shown

\* ---- the listing crawler, any filter sequence (SpecAnyFilters)

\* C24: applyFilters, as claimed: whenever the wait for the filter control
\* gives no element, apply_filters fails: run goes to its handler with an
\* error, no filter value is typed and get_table_data is not entered. The
\* code violates it for the empty filter sequence: the control is used only
\* inside the loop over the filters, so with no filter nothing fails and
\* get_table_data follows.
C24_NoControlIsFatal ==
    [][(run_pc = "apply_filters" /\ run_pc' # run_pc /\ last_wait'.element = "None") =>
          /\ run_pc' = "cleanup"
          /\ run_error' # "none"
          /\ selected' = <<>>
          /\ pc' = "Idle"]_vars

\* ---- the enrichment pass (SpecEnrich)

\* pandas' test of a populated field, and of a candidate that is not empty.
Populated(v) == v # NaN /\ v # None

NonEmpty(v) == v # None /\ v # <<>>

\* The merge rule for one field.
MergeRule(existing, candidate, after) ==
    IF Populated(existing) THEN after = existing
    ELSE IF NonEmpty(candidate) THEN after = candidate
    ELSE after = existing /\ ~Populated(after)

\* C2: merge rule. In every step of process_school that scrapes the detail
\* page, phone and website of the row after the step follow the merge rule
\* from their values before the step and the candidates scraped.
C2_MergeRule ==
    [][(e_pc = "process_school" /\ extracts' = extracts + 1) =>
         LET old == updated_df[index + 1]
             new == updated_df'[index + 1]
             cand == new_data'[1]
         IN /\ MergeRule(old.phone, cand.phone, new.phone)
            /\ MergeRule(old.website, cand.website, new.website)]_vars

\* C2 witness: a row with a website and no phone has been merged with a page
\* that gives a phone and another website: the phone is taken, the website
\* kept.
C2_Witness ==
    /\ e_pc = "checkpoint"
    /\ new_data # <<>>
    /\ NonEmpty(new_data[1].phone)
    /\ NonEmpty(new_data[1].website)
    /\ ~Populated(df[index + 1].phone)
    /\ Populated(df[index + 1].website)
    /\ updated_df[index + 1].phone = new_data[1].phone
    /\ updated_df[index + 1].website = df[index + 1].website
    /\ updated_df[index + 1].website # new_data[1].website

Multiples50(n) == {k \in 1..n : k % 50 = 0}

LastFlush == CHOOSE k \in flushed_at : \A j \in flushed_at : j <= k

\* C5: checkpoint cadence. After `index` iterations of the loop the
\* intermediate file has been written exactly after the positions 50, 100, ...
\* up to index; the file holds all records: those up to the last such
\* position as merged, the later ones as loaded.
C5_CheckpointCadence ==
    /\ flushed_at = Multiples50(index)
    /\ flushed_at = {} <=> intermediate_csv = <<>>
    /\ flushed_at # {} =>
         LET snap == intermediate_csv[1] IN
         /\ Len(snap) = Len(df)
         /\ \A j \in 1..Len(snap) :
              snap[j] = IF j <= LastFlush THEN updated_df[j] ELSE df[j]

\* C5 witness: the file has been written after positions 50 and 100, none
\* after 101, and holds a merged phone.
C5_Witness ==
    /\ index = 101
    /\ flushed_at = {50, 100}
    /\ \E j \in 1..100 : intermediate_csv[1][j].phone # df[j].phone

\* C6: idempotent skip. A step of process_school on a row whose phone and
\* website are both populated navigates nowhere, extracts nothing and leaves
\* every record as it is.
C6_IdempotentSkip ==
    [][(e_pc = "process_school"
          /\ Populated(updated_df[index + 1].phone)
          /\ Populated(updated_df[index + 1].website)) =>
         /\ navs' = navs
         /\ extracts' = extracts
         /\ driver_url' = driver_url
         /\ updated_df' = updated_df]_vars

\* C6 witness: a complete row has been skipped, after other rows were visited.
C6_Witness ==
    /\ e_pc = "checkpoint"
    /\ new_data = <<>>
    /\ Populated(updated_df[index + 1].phone)
    /\ Populated(updated_df[index + 1].website)
    /\ navs >= 1

\* The record the loop is at is one whose processing raises: driver.get
\* raises, or the extraction does.
AtFailingRecord ==
    /\ e_pc = "process_school"
    /\ ~HasCompleteData(updated_df[index + 1])
    /\ FaultOf(KindAt(seed, index + 1)) \in {"get", "extract"}

\* C12: record-level failure isolation. The step of process_school on a
\* record whose navigation or extraction raises leaves every field of every
\* record as it was, and the loop goes on (to the end of this iteration, then
\* to the next record); no exception of the processing of a record ever
\* reaches the handler of run.
C12_RecordFailureIsolated ==
    /\ [][AtFailingRecord =>
            /\ updated_df' = updated_df
            /\ e_pc' = "checkpoint"
            /\ index' = index
            /\ e_error' = "none"]_vars
    /\ [](e_error # "WebDriverException")

\* C12 witness: driver.get raised for one record and the extraction for
\* another; a later record was merged and the run has written the final file.
C12_Witness ==
    /\ e_exit = "returned"
    /\ enriched_csv # <<>>
    /\ \E i, j, k \in 1..Len(df) :
         /\ i < k /\ j < k
         /\ ~HasCompleteData(df[i]) /\ FaultOf(KindAt(seed, i)) = "get"
         /\ ~HasCompleteData(df[j]) /\ FaultOf(KindAt(seed, j)) = "extract"
         /\ enriched_csv[1][i] = df[i]
         /\ enriched_csv[1][j] = df[j]
         /\ enriched_csv[1][k] # df[k]

\* C15: checkpoint failures are not fatal, as claimed: a run in which the
\* write of an intermediate file failed still processes every record, writes
\* the final file and returns. The code violates it: the exception of the
\* write leaves the loop, the handler of run logs it and raises it again.
C15_CheckpointFailureNotFatal ==
    (e_error = "OSError" /\ e_pc = "ended") =>
        /\ index = Len(updated_df)
        /\ enriched_csv # <<>>
        /\ e_exit = "returned"

\* The fields of a record that are not contact details.
ListingFields(r) == <<r.name, r.url, r.district, r.address, r.grades, r.page_number>>

\* Record set a has the records of the loaded set, in its order, with the
\* listing fields of each as loaded.
SameListing(a, loaded) ==
    /\ Len(a) = Len(loaded)
    /\ \A i \in 1..Len(loaded) : ListingFields(a[i]) = ListingFields(loaded[i])

\* The snapshots of the run that exist: the files written, and the frame in
\* memory once it was copied from the loaded one.
Snapshots ==
    {snap[1] : snap \in {f \in {intermediate_csv, enriched_csv} : f # <<>>}}
    \cup (IF e_pc \in {"process_school", "checkpoint", "final"} THEN {updated_df} ELSE {})

\* C22: enrichment changes only phone and website. Every intermediate and
\* final snapshot of an enrichment run has as many records as the loaded set,
\* in the same order, and name, url, district, address, grades and
\* page_number of every record are as loaded.
C22_OnlyContactFieldsChange ==
    \A snap \in Snapshots : SameListing(snap, df)

\* C22 witness: the final file is written after an intermediate one, and in
\* it a phone and a website differ from the loaded values.
C22_Witness ==
    /\ enriched_csv # <<>>
    /\ intermediate_csv # <<>>
    /\ Len(df) > CheckpointEvery
    /\ \E i \in 1..Len(df) : enriched_csv[1][i].phone # df[i].phone
    /\ \E i \in 1..Len(df) : enriched_csv[1][i].website # df[i].website
    /\ \E i \in 1..Len(df) : intermediate_csv[1][i].phone # df[i].phone

\* C23: rate limiting, as claimed: every record whose processing was
\* attempted (driver.get was called for it) is followed by one rate-limit
\* delay before the loop goes on, whatever the outcome: as many delays have
\* elapsed as navigations were started. The code violates it: time.sleep(1)
\* is inside the try block after the merge, and is skipped when driver.get
\* raises.
C23_DelayAfterEveryAttempt == sleeps = navs

\* ---- enrich runs on the files of earlier enrich runs (SpecResume)

\* process_school for one record whose detail page is of kind k: what it returns.
ProcessedRecord(row, k) ==
    IF HasCompleteData(row) THEN row
    ELSE IF FaultOf(k) = "get" THEN row
    ELSE Merge(row, ExtractAdditionalData(DetailPage(k), FaultOf(k) = "extract"))

\* The final record set of one uninterrupted run on the original dataset of
\* n records.
Uninterrupted(s, n) ==
    [i \in 1..n |-> ProcessedRecord(LoadedRecord(s, i), KindAt(s, i))]

\* The original dataset of n records.
Original(s, n) == [i \in 1..n |-> LoadedRecord(s, i)]

\* C26: resumable enrichment. With detail pages that yield the same candidates
\* every time, the final export of every enrich run, whether on the original
\* dataset, on an intermediate checkpoint or on a final export of an earlier
\* run, is the record set one uninterrupted run on the original dataset
\* gives; and a run on an already enriched dataset changes no record at any
\* point.
C26_Resumable ==
    /\ enriched_csv # <<>> => enriched_csv[1] = Uninterrupted(seed, original_size)
    /\ (e_pc \in {"process_school", "checkpoint", "final"}
        /\ df = Uninterrupted(seed, original_size)) => updated_df = df

\* C26 witness: a run on an intermediate checkpoint that held enriched
\* records and records still as loaded has written its final export, in
\* which the latter are enriched.
C26_Witness ==
    /\ input_name = "intermediate"
    /\ enriched_csv # <<>>
    /\ df # Original(seed, original_size)
    /\ df # Uninterrupted(seed, original_size)
    /\ enriched_csv[1] # df



\* C25: pipeline ordering, as claimed: the enrich run is started only after
\* the scrape run has ended, and whenever read_csv loads a dataset, the crawl
\* has persisted one and the loaded dataset is that one as read_csv reads it
\* back; a crawl that ended without persisting leaves enrichment with nothing
\* to load. The code violates the last part: run swallows every error of the
\* crawl, main.py starts the enricher in any case, and read_csv loads
\* whatever file is at the path, a file of an earlier run included.
C25_PipelineOrdering ==
    /\ [](e_pc # "idle" => run_pc = "returned")
    /\ [][(e_pc = "read_csv" /\ e_pc' = "setup_driver") =>
            /\ saved # <<>>
            /\ df' = ReadBack(saved[1])]_vars

\* ---- both runs (SpecRuns)

\* C13: guaranteed teardown. When the scrape run or the enrich run has ended,
\* by returning or by raising, its session is not active: a session that was
\* started has been quit (the step that ends the run is the one that closes
\* it), and a session that was never started is still None. The close of a
\* run whose session never started changes nothing and adds no error: the
\* run ends as its own error decides.
C13_Teardown ==
    /\ [](run_exit # "none" => driver \in {"None", "quit"})
    /\ [](e_exit # "none" => e_driver \in {"None", "quit"})
    /\ [][(driver = "active" /\ run_exit' # run_exit) => driver' = "quit"]_vars
    /\ [][(e_driver = "active" /\ e_exit' # e_exit) => e_driver' = "quit"]_vars
    /\ [][(run_pc = "cleanup" /\ driver = "None") =>
            /\ driver' = "None"
            /\ run_error' = run_error
            /\ run_exit' # "none"]_vars
    /\ [][(e_pc = "cleanup" /\ e_driver = "None") =>
            /\ e_driver' = "None"
            /\ e_error' = e_error
            /\ e_exit' = (IF e_error = "none" THEN "returned" ELSE "raised")]_vars

\* C13 witness: the enrich run met a fatal error inside the loop (the
\* intermediate file could not be written); it has raised, with the session
\* it had started quit.
C13_Witness ==
    /\ e_exit = "raised"
    /\ e_error = "OSError"
    /\ index = CheckpointEvery - 1
    /\ e_driver = "quit"

\* C14: fatal session errors surface, as claimed: when the session fails to
\* start (either run) or the input file fails to load (enrich run), no page
\* or record is processed, the start is not tried again, and the run ends by
\* raising the error to its caller. The scrape run violates the last part:
\* its handler logs the error and run returns normally.
C14_FatalErrorsSurface ==
    /\ run_error = "SessionStartError" =>
          /\ pc = "Idle"
          /\ schools_data = <<>>
          /\ driver = "None"
          /\ run_pc = "returned" => run_exit = "raised"
    /\ e_error \in {"SessionStartError", "FileNotFoundError"} =>
          /\ navs = 0
          /\ index = 0
          /\ e_driver = "None"
          /\ e_pc = "ended" => e_exit = "raised"

====
